---- MODULE Spec2Model ----
(***************************************************************************)
(* A model of the components of the repository:                            *)
(*   - Accordion / AccordionItem                                           *)
(*       (static/app/views/performance/landing/widgets/components/         *)
(*        accordion.tsx)                                                   *)
(*   - VitalDetailContent (static/app/components/avatar/sentryAppAvatar.tsx*)
(*       lines 126-442) and SentryAppAvatar (same file, lines 1-38)        *)
(*   - EventReplay (static/app/components/events/eventReplay/index.tsx)    *)
(*   - Matrix (unnamed/part_000, lines 181-280)                            *)
(*   - SampleTable and the migration renumbering script                    *)
(*       (static/app/views/starfish/views/spanSummaryPage/sampleList/      *)
(*        sampleTable/sampleTable.tsx, lines 1-137 and 220-383)            *)
(* Each component has its own specification over the shared variables.     *)
(* JavaScript arrays are modelled as TLA+ sequences: the JavaScript index  *)
(* i is position i + 1 of the sequence.                                    *)
(***************************************************************************)
EXTENDS Integers, Sequences, FiniteSets, TLC

VARIABLES
  \* ---- Accordion props (owned by the caller) and its last render ----
  items,            \* Props.items: the list of AccordionItemContent
  expandedIndex,    \* Props.expandedIndex, the value the caller stores
  buttonOnLeft,     \* Props.buttonOnLeft (optional boolean)
  tree,             \* the elements produced by the last render of Accordion
  contentCalls,     \* JS indices whose item.content() ran in the last render
  lastClick         \* the last click on an item's control, or NoClick

accVars == <<items, expandedIndex, buttonOnLeft, tree, contentCalls, lastClick>>

VARIABLES
  \* ---- VitalDetailContent props, local state and navigation ----
  location,         \* props.location: [pathname, query]
  vitalName,        \* props.vitalName
  error,            \* useState: error
  totalEventsCount, \* useState: totalEventsCount
  pending,          \* the browserHistory.push not yet delivered, or NoPush
  tracked,          \* the trackAdvancedAnalyticsEvent call of the last step, or NoEvent
  countFrom         \* where totalEventsCount comes from: "initial", or a
                    \* report made under the "current" or a "previous" selection

vitalVars ==
  <<location, vitalName, error, totalEventsCount, pending, tracked, countFrom>>

VARIABLES
  \* ---- SampleTable props, hook results, local state and outputs ----
  tableProps,       \* Props of SampleTable
  spanMetrics,      \* useSpanMetrics: [data, isFetching]
  samples,          \* useSpanSamples: [data, isFetching, isEnabled, error]
  transactions,     \* useTransactions: [data, isFetching, isEnabled, isLoading, error]
  loadedSpans,      \* useState: loadedSpans
  pageError,        \* usePageError: the page error, or Undefined
  sent              \* the trackAnalytics call of the last step, or NoAnalytics

sampleVars ==
  <<tableProps, spanMetrics, samples, transactions, loadedSpans, pageError, sent>>

VARIABLES
  \* ---- the migration renumbering script: a run and its file system ----
  pc,               \* the position of the run of main
  argv,             \* the command line: [migration, app_label]
  fs,               \* the files: [migrations, lockfile, tests]
  frame,            \* main's locals: [migration_meta, current_head, new_name]
  fs0               \* the files as they were when the run started

migVars == <<pc, argv, fs, frame, fs0>>

VARIABLES
  \* ---- SentryAppAvatar props and its last render ----
  avatarProps,      \* Props: [isColor, isDefault, sentryApp]
  avatarTree        \* the element returned by the last render

avatarVars == <<avatarProps, avatarTree>>

VARIABLES
  \* ---- EventReplay props, hook result and its last render ----
  replayProps,      \* [event, hasReplaysFeature, canUpsellReplay]
  replayCheck,      \* useHasOrganizationSentAnyReplayEvents: [fetching, hasOrgSentReplays]
  replayTree        \* the element returned by the last render

replayVars == <<replayProps, replayCheck, replayTree>>

VARIABLES
  \* ---- Matrix props and its last render ----
  propMatrix,       \* Props.propMatrix: for each prop, its list of values if any
  selectedProps,    \* Props.selectedProps
  matrixTree        \* the element returned by the last render

matrixVars == <<propMatrix, selectedProps, matrixTree>>

vars == <<accVars, vitalVars, sampleVars, migVars, avatarVars, replayVars, matrixVars>>

\* The variables each component leaves alone.
notAccVars == <<vitalVars, sampleVars, migVars, avatarVars, replayVars, matrixVars>>
notVitalVars == <<accVars, sampleVars, migVars, avatarVars, replayVars, matrixVars>>
notSampleVars == <<accVars, vitalVars, migVars, avatarVars, replayVars, matrixVars>>
notMigVars == <<accVars, vitalVars, sampleVars, avatarVars, replayVars, matrixVars>>
notAvatarVars == <<accVars, vitalVars, sampleVars, migVars, replayVars, matrixVars>>
notReplayVars == <<accVars, vitalVars, sampleVars, migVars, avatarVars, matrixVars>>
notMatrixVars == <<accVars, vitalVars, sampleVars, migVars, avatarVars, replayVars>>

\* ------------------------------------------------------------------------
\* Bounds and value sets
\* ------------------------------------------------------------------------
MaxItems == 3

ItemIds == {"a", "b"}

Undefined == "<undefined>"

NoClick == [index |-> -2, wasExpanded |-> FALSE, buttonOnLeft |-> FALSE, arg |-> -2]

\* JavaScript truthiness of an optional boolean prop.
Truthy(v) == v = "true"

\* The values an optional boolean prop can take.
OptBool == {"true", "false", Undefined}

\* All lists of at most n item ids.
ItemLists(n) == UNION {[1..k -> ItemIds] : k \in 0..n}

\* ------------------------------------------------------------------------
\* Accordion
\* ------------------------------------------------------------------------

\* A plausible slip: the control toggles, collapsing the open item.
AccordionItemToggle(isExpanded, index, children, content, onLeft) ==
  [ currentIndex |-> index,
    header       |-> children,
    placement    |-> IF Truthy(onLeft) THEN "left" ELSE "right",
    chevron      |-> IF isExpanded THEN "up" ELSE "down",
    ariaExpanded |-> isExpanded,
    onClickArg   |-> IF isExpanded THEN -1 ELSE index,
    shown        |-> IF isExpanded THEN content ELSE "" ]

\* AccordionItem: one <li>. Both placements of the button build the same
\* control (chevron, aria-expanded, onClick) and show the content only when
\* isExpanded; they differ in where the button sits.
AccordionItem(isExpanded, index, children, content, onLeft) ==
  IF Truthy(onLeft)
  THEN [ currentIndex |-> index,
         header       |-> children,
         placement    |-> "left",
         chevron      |-> IF isExpanded THEN "up" ELSE "down",
         ariaExpanded |-> isExpanded,
         onClickArg   |-> index,
         shown        |-> IF isExpanded THEN content ELSE "" ]
  ELSE [ currentIndex |-> index,
         header       |-> children,
         placement    |-> "right",
         chevron      |-> IF isExpanded THEN "up" ELSE "down",
         ariaExpanded |-> isExpanded,
         onClickArg   |-> index,
         shown        |-> IF isExpanded THEN content ELSE "" ]

\* What item.header() and item.content() return for an item.
Header(item) == "header-" \o item
Content(item) == "content-" \o item

\* A plausible slip: the comparison is off by one.
AccordionOffByOne(expIdx, its, onLeft) ==
  [ k \in 1..Len(its) |->
      AccordionItem(k = expIdx, k - 1, Header(its[k]), Content(its[k]), onLeft) ]

\* Accordion: items.map((item, index) => <AccordionItem .../>).
Accordion(expIdx, its, onLeft) ==
  [ k \in 1..Len(its) |->
      AccordionItem((k - 1) = expIdx, k - 1,
                    Header(its[k]), Content(its[k]), onLeft) ]

\* The JS indices whose item.content() is invoked while Accordion renders:
\* content={item.content()} is evaluated inside the map callback for every
\* item, before AccordionItem decides whether to show it.
ContentInvocations(expIdx, its) == [ k \in 1..Len(its) |-> k - 1 ]

\* The user clicks the control of the rendered item at JS index i: its
\* onClick calls setExpandedIndex, the caller stores the value and the
\* Accordion renders again.
Click(i) ==
  /\ i + 1 \in DOMAIN tree
  /\ LET e == tree[i + 1] IN
       /\ expandedIndex' = e.onClickArg
       /\ lastClick' = [ index        |-> i,
                         wasExpanded  |-> e.ariaExpanded,
                         buttonOnLeft |-> e.placement = "left",
                         arg          |-> e.onClickArg ]
  /\ UNCHANGED <<items, buttonOnLeft, notAccVars>>
  /\ tree' = Accordion(expandedIndex', items', buttonOnLeft')
  /\ contentCalls' = ContentInvocations(expandedIndex', items')

\* The caller renders the Accordion with another list or button placement.
CallerRerender ==
  /\ \E its \in ItemLists(MaxItems), b \in OptBool :
       /\ items' = its
       /\ buttonOnLeft' = b
  /\ UNCHANGED <<expandedIndex, lastClick, notAccVars>>
  /\ tree' = Accordion(expandedIndex', items', buttonOnLeft')
  /\ contentCalls' = ContentInvocations(expandedIndex', items')

AccNext ==
  \/ \E i \in 0..(MaxItems - 1) : Click(i)
  \/ CallerRerender

\* ------------------------------------------------------------------------
\* Claims about Accordion (checked under AccordionSpec)
\* ------------------------------------------------------------------------

\* The positions of the rendered items that are expanded.
ExpandedItems == { k \in DOMAIN tree : tree[k].ariaExpanded }

\* C1: in every render at most one item is expanded (aria-expanded, chevron
\* up and content shown go together); exactly one is expanded iff
\* 0 <= expandedIndex < items.length, and it is the item at that index.
C1_AtMostOneExpanded ==
  /\ DOMAIN tree = 1..Len(items)
  /\ Cardinality(ExpandedItems) <= 1
  /\ (Cardinality(ExpandedItems) = 1) <=>
       (0 <= expandedIndex /\ expandedIndex < Len(items))
  /\ \A k \in ExpandedItems : tree[k].currentIndex = expandedIndex /\ k - 1 = expandedIndex
  /\ \A k \in DOMAIN tree :
       /\ tree[k].ariaExpanded <=> (tree[k].chevron = "up")
       /\ tree[k].ariaExpanded <=> (tree[k].shown = Content(items[k]))
       /\ ~tree[k].ariaExpanded <=> (tree[k].shown = "")

\* C1 witness: after a click on the last of three items exactly that item is
\* expanded.
C1_Witness ==
  /\ lastClick # NoClick
  /\ Len(items) = 3
  /\ expandedIndex = 2
  /\ ExpandedItems = {3}

\* C2: a click on the control of item i calls setExpandedIndex(i) whatever
\* the button placement and whether or not i was already expanded; the
\* stored index is i and item i, when it is still in the list, is expanded.
C2_ClickSetsClickedIndex ==
  lastClick # NoClick =>
    /\ lastClick.arg = lastClick.index
    /\ expandedIndex = lastClick.index
    /\ (lastClick.index < Len(items) => tree[lastClick.index + 1].ariaExpanded)

\* C2 witness: the open item was clicked, with the button on the left, and
\* is still open.
C2_Witness ==
  /\ lastClick # NoClick
  /\ lastClick.wasExpanded
  /\ lastClick.buttonOnLeft
  /\ lastClick.index + 1 \in ExpandedItems

\* C3: in every render the content renderer of a non-expanded item is not
\* invoked, so at most one content renderer runs per render.
C3_NonExpandedContentNotInvoked ==
  /\ Len(contentCalls) <= 1
  /\ \A j \in DOMAIN contentCalls : contentCalls[j] = expandedIndex

\* ------------------------------------------------------------------------
\* VitalDetailContent
\* ------------------------------------------------------------------------
MaxCount == 1

\* A key that the query map does not hold.
Absent == "<absent>"

\* enum DisplayModes
WORST_VITALS == "Worst Vitals"
DURATION_P75 == "P75"

\* const FRONTEND_VITALS = [WebVital.FCP, WebVital.LCP, WebVital.FID, WebVital.CLS]
FCP == "measurements.fcp"
LCP == "measurements.lcp"
FID == "measurements.fid"
CLS == "measurements.cls"
TTFB == "measurements.ttfb"
FRONTEND_VITALS == <<FCP, LCP, FID, CLS>>

\* The parameters of location.query the model follows: the three the
\* component writes, the pagination cursor and one it never touches.
Keys == {"query", "display", "vitalName", "cursor", "project"}

\* The values location.query can hold for each key when the page is opened.
QueryValues(k) ==
  CASE k = "query"     -> {Absent, "q1"}
    [] k = "display"   -> {Absent, WORST_VITALS, DURATION_P75, "foo"}
    [] k = "vitalName" -> {Absent, LCP, TTFB}
    [] k = "cursor"    -> {Absent, "0:50:0"}
    [] k = "project"   -> {Absent, "1"}

QueryMaps ==
  { [ k \in Keys |-> CASE k = "query"     -> a
                       [] k = "display"   -> b
                       [] k = "vitalName" -> c
                       [] k = "cursor"    -> d
                       [] k = "project"   -> e ] :
      a \in QueryValues("query"), b \in QueryValues("display"),
      c \in QueryValues("vitalName"), d \in QueryValues("cursor"),
      e \in QueryValues("project") }

Pathnames == {"/performance/vitaldetail/", "/organizations/acme/performance/vitaldetail/"}

\* What the user can type into the search bar.
SearchInputs == {"", "q2"}

\* The vitalName prop the parent passes: the vital named by the URL.
vitalNameFromLocation(loc) ==
  IF loc.query["vitalName"] \in {Absent, Undefined}
  THEN Undefined ELSE loc.query["vitalName"]

NoPush == [by |-> "none"]
NoEvent == [name |-> "none"]

\* {...obj, [key]: value}
Spread(obj, key, value) == [obj EXCEPT ![key] = value]

\* lodash omit(obj, key)
omit(obj, key) == [obj EXCEPT ![key] = Absent]

\* normalizeDateTimeParams (components/organizations/pageFilters/parse):
\* parameters that are not date-time parameters are passed through.
normalizeDateTimeParams(params) == params

\* decodeScalar (utils/queryString): the value when there is one, the
\* fallback when the parameter is absent.
decodeScalar(value, fallback) ==
  IF value \in {Absent, Undefined} THEN fallback ELSE value

\* defined (utils)
defined(x) == x \in Nat

\* vitalAbbreviations (./utils)
vitalAbbreviations(v) ==
  CASE v = FCP -> "FCP"
    [] v = LCP -> "LCP"
    [] v = FID -> "FID"
    [] v = CLS -> "CLS"
    [] OTHER   -> Undefined

\* a ?? b
Coalesce(a, b) == IF a = Undefined THEN b ELSE a

\* FRONTEND_VITALS.indexOf(v)
IndexOf(seq, v) ==
  IF \E k \in 1..Len(seq) : seq[k] = v
  THEN (CHOOSE k \in 1..Len(seq) : seq[k] = v /\ \A j \in 1..(k - 1) : seq[j] # v) - 1
  ELSE -1

\* A plausible slip: a fallback to the other display mode.
displayP75(loc) == decodeScalar(loc.query["display"], DURATION_P75)

\* const display = decodeScalar(props.location.query.display, DisplayModes.WORST_VITALS)
display(loc) == decodeScalar(loc.query["display"], WORST_VITALS)

\* A plausible slip: the pagination cursor survives a new search.
handleSearchKeepCursor(loc, query) ==
  [ pathname |-> loc.pathname,
    query    |-> normalizeDateTimeParams(Spread(loc.query, "query", query)) ]

\* handleSearch: the location it pushes.
handleSearch(loc, query) ==
  LET queryParams == normalizeDateTimeParams(Spread(loc.query, "query", query))
      searchQueryParams == omit(queryParams, "cursor")
  IN  [ pathname |-> loc.pathname, query |-> searchQueryParams ]

\* A plausible slip: the vital switch starts from an empty query.
switchWebVitalFresh(loc, newVitalName) ==
  [ pathname |-> loc.pathname,
    query    |-> [ k \in Keys |-> IF k = "vitalName" THEN newVitalName ELSE Absent ] ]

\* switchWebVital: the location it pushes.
switchWebVital(loc, newVitalName) ==
  [ pathname |-> loc.pathname,
    query    |-> Spread(Spread(loc.query, "vitalName", newVitalName),
                        "cursor", Undefined) ]

\* A plausible slip: the display change navigates to the site root.
handleDisplayChangeRoot(loc, value) ==
  [ pathname |-> "/",
    query    |-> Spread(loc.query, "display", value) ]

\* handleDisplayChange: the location it pushes.
handleDisplayChange(loc, value) ==
  [ pathname |-> loc.pathname,
    query    |-> Spread(loc.query, "display", value) ]

\* generateDisplayOptions: the values of the options.
generateDisplayOptions == <<WORST_VITALS, DURATION_P75>>

\* A plausible slip: every entry is pushed, the current vital is not moved
\* to the front.
renderVitalSwitcherInOrder(vName) ==
  IF IndexOf(FRONTEND_VITALS, vName) < 0 THEN <<>> ELSE FRONTEND_VITALS

\* renderVitalSwitcher: the keys of the menu items in order, or <<>> when
\* no switcher is rendered. The reduce puts the current vital first
\* (unshift) and appends the others (push).
renderVitalSwitcher(vName) ==
  LET position == IndexOf(FRONTEND_VITALS, vName)
      acc[k \in 0..Len(FRONTEND_VITALS)] ==
        IF k = 0 THEN <<>>
        ELSE IF vName = FRONTEND_VITALS[k]
             THEN <<FRONTEND_VITALS[k]>> \o acc[k - 1]
             ELSE Append(acc[k - 1], FRONTEND_VITALS[k])
  IN  IF position < 0 THEN <<>> ELSE acc[Len(FRONTEND_VITALS)]

\* A plausible slip: the sub-view test is inverted.
renderContentInverted(loc, vital, total) ==
  LET d == display(loc) IN
  [ searchQuery |-> decodeScalar(loc.query["query"], ""),
    subview     |-> IF d # WORST_VITALS THEN "VitalWidget" ELSE "VitalChart",
    totalCell   |-> IF d = WORST_VITALS /\ defined(total)
                    THEN [kind |-> "count", value |-> total]
                    ELSE [kind |-> "dash", value |-> 0],
    selected    |-> d,
    options     |-> generateDisplayOptions,
    vital       |-> vital ]

\* renderContent(vital): the search bar's query, the one sub-view, the
\* total-events cell and the display selector.
renderContent(loc, vital, total) ==
  LET d == display(loc) IN
  [ searchQuery |-> decodeScalar(loc.query["query"], ""),
    subview     |-> IF d = WORST_VITALS THEN "VitalWidget" ELSE "VitalChart",
    totalCell   |-> IF d = WORST_VITALS /\ defined(total)
                    THEN [kind |-> "count", value |-> total]
                    ELSE [kind |-> "dash", value |-> 0],
    selected    |-> d,
    options     |-> generateDisplayOptions,
    vital       |-> vital ]

\* VitalDetailContent: what one render shows for the given props and state.
VitalDetailContent(loc, vName, err, total) ==
  LET vital == IF vName = Undefined THEN LCP ELSE vName IN
  [ switcher |-> renderVitalSwitcher(vName),
    alert    |-> IF err = Undefined THEN "none" ELSE err,
    content  |-> renderContent(loc, vital, total) ]

\* The selection the events of the page are fetched for: the search, the
\* vital and the page filters, not the display mode or the cursor.
Selection(loc) ==
  [ query     |-> decodeScalar(loc.query["query"], ""),
    vitalName |-> vitalNameFromLocation(loc),
    project   |-> loc.query["project"] ]

\* The render of the current props and state.
Rendered == VitalDetailContent(location, vitalName, error, totalEventsCount)

\* browserHistory.push(target) issued by handler `by` with argument `arg`
\* while the props held location `from`.
Push(by, arg, target) ==
  pending' = [ by |-> by, arg |-> arg, from |-> location,
               pathname |-> target.pathname, query |-> target.query ]

\* A plausible slip: the display change is applied before the navigation.
HandleDisplayChangeOptimistic(value) ==
  /\ Push("display", value, handleDisplayChange(location, value))
  /\ location' = handleDisplayChange(location, value)
  /\ tracked' = NoEvent
  /\ UNCHANGED <<vitalName, error, totalEventsCount, countFrom, notVitalVars>>

\* The user picks a display option.
HandleDisplayChange(value) ==
  /\ Push("display", value, handleDisplayChange(location, value))
  /\ tracked' = NoEvent
  /\ UNCHANGED <<location, vitalName, error, totalEventsCount, countFrom,
                 notVitalVars>>

\* The user submits a search.
HandleSearch(query) ==
  /\ Push("search", query, handleSearch(location, query))
  /\ tracked' = NoEvent
  /\ UNCHANGED <<location, vitalName, error, totalEventsCount, countFrom,
                 notVitalVars>>

\* The user picks entry k of the vital switcher: onAction pushes and then
\* tracks the switch.
SwitchWebVital(k) ==
  /\ k \in DOMAIN Rendered.switcher
  /\ LET newVitalName == Rendered.switcher[k] IN
       /\ Push("switch", newVitalName, switchWebVital(location, newVitalName))
       /\ tracked' = [ name |-> "performance_views.vital_detail.switch_vital",
                       from_vital |-> Coalesce(vitalAbbreviations(vitalName), "undefined"),
                       to_vital   |-> Coalesce(vitalAbbreviations(newVitalName), "undefined") ]
  /\ UNCHANGED <<location, vitalName, error, totalEventsCount, countFrom,
                 notVitalVars>>

\* VitalWidget, rendered only in the Worst Vitals branch, reports a count.
SetTotalEventsCount(n) ==
  /\ Rendered.content.subview = "VitalWidget"
  /\ totalEventsCount' = n
  /\ countFrom' = "current"
  /\ tracked' = NoEvent
  /\ UNCHANGED <<location, vitalName, error, pending, notVitalVars>>

\* Table reports an error, or clears it.
SetError(e) ==
  /\ error' = e
  /\ tracked' = NoEvent
  /\ UNCHANGED <<location, vitalName, totalEventsCount, pending, countFrom,
                 notVitalVars>>

\* The router delivers the pushed location as new props. Parameters set to
\* undefined are not part of the URL; the parent passes the URL's vital.
RouterDeliver ==
  /\ pending # NoPush
  /\ location' = [ pathname |-> pending.pathname,
                   query    |-> [ k \in Keys |->
                                    IF pending.query[k] = Undefined
                                    THEN Absent ELSE pending.query[k] ] ]
  /\ vitalName' = vitalNameFromLocation(location')
  /\ pending' = NoPush
  /\ countFrom' = IF countFrom = "current" /\ Selection(location') # Selection(location)
                  THEN "previous" ELSE countFrom
  /\ tracked' = NoEvent
  /\ UNCHANGED <<error, totalEventsCount, notVitalVars>>

VitalNext ==
  \/ \E v \in {generateDisplayOptions[k] : k \in DOMAIN generateDisplayOptions} :
       HandleDisplayChange(v)
  \/ \E q \in SearchInputs : HandleSearch(q)
  \/ \E k \in 1..Len(FRONTEND_VITALS) : SwitchWebVital(k)
  \/ \E n \in 0..MaxCount : SetTotalEventsCount(n)
  \/ \E e \in {Undefined, "error"} : SetError(e)
  \/ RouterDeliver

\* ------------------------------------------------------------------------
\* Claims about VitalDetailContent (checked under VitalSpec)
\* ------------------------------------------------------------------------

\* A cursor value that paginates nothing: the key is omitted or undefined.
NoCursor(q) == q["cursor"] \in {Absent, Undefined}

\* The query parameter each handler writes.
OwnField(by) ==
  CASE by = "search"  -> "query"
    [] by = "switch"  -> "vitalName"
    [] by = "display" -> "display"

\* C4: a display change pushes a query map from which any prior cursor has
\* been removed.
C4_DisplayChangeDropsCursor ==
  pending.by = "display" => NoCursor(pending.query)

\* C5: a search and a vital switch each push a query map with no effective
\* cursor, whatever cursor location.query carried.
C5_SearchAndSwitchResetCursor ==
  pending.by \in {"search", "switch"} => NoCursor(pending.query)

\* C5 witness: a search was pushed from a location that carried a cursor.
C5_Witness ==
  /\ pending.by = "search"
  /\ pending.from.query["cursor"] = "0:50:0"

WithDefaultDisplay(loc) ==
  [loc EXCEPT !.query = Spread(loc.query, "display", WORST_VITALS)]

\* C7: a display value that is not a known mode renders the same sub-view
\* and total-events cell as the default mode.
C7_UnknownModeRendersDefault ==
  display(location) \notin {WORST_VITALS, DURATION_P75} =>
    LET def == VitalDetailContent(WithDefaultDisplay(location), vitalName,
                                  error, totalEventsCount)
    IN  /\ Rendered.content.subview = def.content.subview
        /\ Rendered.content.totalCell = def.content.totalCell

\* C8: exactly one of the two sub-views is rendered, which one depends on
\* display alone, and a count is shown only with the VitalWidget sub-view.
C8_OneSubviewByDisplay ==
  /\ Rendered.content.subview \in {"VitalWidget", "VitalChart"}
  /\ \A q \in QueryMaps, total \in 0..MaxCount :
       LET other == renderContent([location EXCEPT !.query = q],
                                  Coalesce(vitalNameFromLocation([location EXCEPT !.query = q]), LCP),
                                  total)
       IN  display([location EXCEPT !.query = q]) = display(location) =>
             other.subview = Rendered.content.subview
  /\ Rendered.content.totalCell.kind = "count" =>
       /\ Rendered.content.subview = "VitalWidget"
       /\ Rendered.content.totalCell.value = totalEventsCount
  /\ Rendered.content.subview = "VitalChart" =>
       Rendered.content.totalCell.kind = "dash"

\* C8 witness: a count was reported and the page now shows the chart with a
\* dash.
C8_Witness ==
  /\ totalEventsCount > 0
  /\ Rendered.content.subview = "VitalChart"
  /\ Rendered.content.totalCell.kind = "dash"

\* C9: an absent display parameter renders as 'Worst Vitals' does (sub-view,
\* total-events cell, selected option) and an absent query parameter gives
\* the empty search string.
C9_AbsentIsDefault ==
  /\ location.query["display"] = Absent =>
       /\ Rendered.content =
            VitalDetailContent(WithDefaultDisplay(location), vitalName,
                               error, totalEventsCount).content
       /\ Rendered.content.selected = WORST_VITALS
       /\ Rendered.content.subview = "VitalWidget"
  /\ location.query["query"] = Absent => Rendered.content.searchQuery = ""

\* C9 witness: the router delivered a location without display and query
\* parameters and the widget reported a count.
C9_Witness ==
  /\ location.query["display"] = Absent
  /\ location.query["query"] = Absent
  /\ location.query["vitalName"] = CLS
  /\ totalEventsCount = 1

\* C10: a handler's push changes neither the props nor the local state, so
\* the render is the same before and after it.
C10_NoOptimisticUpdate ==
  [][ (pending' # pending /\ pending' # NoPush) =>
        /\ location' = location
        /\ vitalName' = vitalName
        /\ error' = error
        /\ totalEventsCount' = totalEventsCount
        /\ Rendered' = Rendered ]_vars

\* C10 witness: a change to P75 is pushed and the page still shows
\* 'Worst Vitals'.
C10_Witness ==
  /\ pending.by = "display"
  /\ pending.arg = DURATION_P75
  /\ Rendered.content.selected = WORST_VITALS
  /\ Rendered.content.subview = "VitalWidget"

\* C11: every push (search, vital switch, display change) goes to the
\* current location.pathname; only the query map differs.
C11_PushKeepsPathname ==
  pending # NoPush =>
    /\ pending.pathname = pending.from.pathname
    /\ pending.pathname = location.pathname

\* C11 witness: a display change was pushed on the organization's page.
C11_Witness ==
  /\ pending.by = "display"
  /\ pending.from.pathname = "/organizations/acme/performance/vitaldetail/"
  /\ pending.query["display"] # pending.from.query["display"]

\* C12: a total-events count reported for a previous selection (search,
\* vital, page filters) is not displayed under the new selection.
C12_StaleCountNotDisplayed ==
  Rendered.content.totalCell.kind = "count" => countFrom # "previous"

\* C23: for a frontend vital the switcher lists FCP, LCP, FID and CLS once
\* each, the current vital first and the others in their original order;
\* for any other vitalName there is no switcher; a selected entry is pushed
\* as the vitalName parameter of the query.
C23_SwitcherListsFrontendVitals ==
  LET menu     == Rendered.switcher
      frontend == { FRONTEND_VITALS[k] : k \in DOMAIN FRONTEND_VITALS }
  IN /\ vitalName \in frontend =>
          /\ Len(menu) = 4
          /\ \A v \in {FCP, LCP, FID, CLS} :
               Cardinality({ k \in DOMAIN menu : menu[k] = v }) = 1
          /\ menu[1] = vitalName
          /\ Tail(menu) = SelectSeq(<<FCP, LCP, FID, CLS>>, LAMBDA v : v # vitalName)
     /\ vitalName \notin frontend => menu = <<>>
     /\ (pending # NoPush /\ pending.by = "switch") =>
          /\ pending.arg \in frontend
          /\ pending.query["vitalName"] = pending.arg
          /\ pending.from.query["vitalName"] \in frontend

\* C23 witness: with CLS, the last frontend vital, current, FID was selected.
C23_Witness ==
  /\ vitalName = CLS
  /\ Rendered.switcher = <<CLS, FCP, LCP, FID>>
  /\ pending # NoPush
  /\ pending.by = "switch"
  /\ pending.query["vitalName"] = FID

\* ------------------------------------------------------------------------
\* SampleTable
\* ------------------------------------------------------------------------
MaxSamples == 2
MaxTransactions == 2

\* The groups the parent can select; transaction name and method follow it.
GroupIds == {"g1", "g2"}
TransactionNames == {"/api/a", "/api/b"}
TransactionMethods == {"GET"}
SpanIds == {"s1", "s2", "s3"}

\* The span samples the backend can return and the transactions it knows.
SampleOf(spanId) ==
  [ span_id |-> spanId,
    transaction_id |-> IF spanId = "s2" THEN "t2" ELSE "t1" ]
TransactionOf(id) == [ id |-> id, project |-> "p-" \o id ]
TransactionIds == {"t1", "t2", "t3"}

\* All lists without repetition of at most n elements of S.
ListsOf(S, n) ==
  UNION { { f \in [1..k -> S] : \A i, j \in 1..k : i # j => f[i] # f[j] } : k \in 0..n }

SampleLists == ListsOf({ SampleOf(x) : x \in SpanIds }, MaxSamples)
TransactionLists == ListsOf({ TransactionOf(x) : x \in TransactionIds }, MaxTransactions)

NoError == "<null>"
FetchErrors == {"E1", "E2"}
NoMetrics == [ op |-> Undefined, avg |-> Undefined ]
LoadedMetrics == [ op |-> "db", avg |-> "12.5" ]

\* const {SPAN_SELF_TIME, SPAN_OP} = SpanMetricsField
SPAN_SELF_TIME == "span.self_time"
SPAN_OP == "span.op"

\* t('An error has occured while loading the samples table')
PageErrorMessage == "An error has occured while loading the samples table"

\* spans.map(span => span['transaction.id'])
TransactionIdsOf(spans) == [ i \in 1..Len(spans) |-> spans[i].transaction_id ]

\* The parameters of the useSpanMetrics call.
SpanMetricsKey(p) ==
  [ group    |-> p.groupId,
    filters  |-> [ transactionName |-> p.transactionName,
                   transactionMethod |-> p.transactionMethod ],
    fields   |-> << "avg(" \o SPAN_SELF_TIME \o ")", SPAN_OP >>,
    referrer |-> "api.starfish.span-summary-panel-samples-table-avg" ]

\* A plausible slip: the highlighted span becomes part of the samples query.
SpanSamplesKeyWithHighlight(p) ==
  [ groupId |-> p.groupId, transactionName |-> p.transactionName,
    transactionMethod |-> p.transactionMethod, highlight |-> p.highlightedSpanId ]

\* The parameters of the useSpanSamples call.
SpanSamplesKey(p) ==
  [ groupId |-> p.groupId, transactionName |-> p.transactionName,
    transactionMethod |-> p.transactionMethod ]

\* The parameters of the useTransactions call.
TransactionsKey(spans) ==
  [ eventIDs |-> TransactionIdsOf(spans),
    referrer |-> "api.starfish.span-summary-panel-samples-table-transactions" ]

\* The three fetch keys of a render.
FetchKeys(p, spans) ==
  [ metrics      |-> SpanMetricsKey(p),
    samples      |-> SpanSamplesKey(p),
    transactions |-> TransactionsKey(spans) ]

\* lodash keyBy(transactions, 'id')[id]: the last transaction with that id,
\* or undefined.
keyByIdLookup(txs, id) ==
  IF \E i \in 1..Len(txs) : txs[i].id = id
  THEN txs[CHOOSE i \in 1..Len(txs) :
             txs[i].id = id /\ \A j \in (i + 1)..Len(txs) : txs[j].id # id]
  ELSE [ id |-> Undefined, project |-> Undefined ]

\* A plausible slip: samples and transactions are paired by position.
JoinByPosition(spans, metrics, txs) ==
  [ i \in 1..Len(spans) |->
      [ span_id        |-> spans[i].span_id,
        transaction_id |-> spans[i].transaction_id,
        op             |-> metrics.op,
        transaction    |-> IF i <= Len(txs) THEN txs[i]
                           ELSE [ id |-> Undefined, project |-> Undefined ] ] ]

\* data={spans.map(sample => ({...sample, op, transaction}))}
Join(spans, metrics, txs) ==
  [ i \in 1..Len(spans) |->
      [ span_id        |-> spans[i].span_id,
        transaction_id |-> spans[i].transaction_id,
        op             |-> metrics.op,
        transaction    |-> keyByIdLookup(txs, spans[i].transaction_id) ] ]

\* const isLoading = ...
IsLoading(m, s, t) ==
  LET areNoSamples == ~s.isFetching /\ Len(s.data) = 0 IN
    \/ m.isFetching
    \/ s.isFetching
    \/ ~s.isEnabled
    \/ (~areNoSamples /\ t.isFetching /\ ~t.isEnabled)

\* One render of SampleTable: what SpanSamplesTable receives and whether the
\* render body calls setPageError.
SampleTable(p, m, s, t) ==
  [ hasData      |-> Len(s.data) > 0,
    data         |-> Join(s.data, m.data, t.data),
    isLoading    |-> IsLoading(m, s, t),
    avg          |-> m.data.avg,
    highlighted  |-> p.highlightedSpanId,
    setPageError |-> IF s.error # NoError \/ t.error # NoError
                     THEN PageErrorMessage ELSE Undefined ]

\* What the query hooks return while a slice is being fetched for a new key,
\* and what useTransactions returns when there are no ids to fetch.
FetchingSamples == [ data |-> <<>>, isFetching |-> TRUE, isEnabled |-> TRUE, error |-> NoError ]
DisabledSamples == [ data |-> <<>>, isFetching |-> FALSE, isEnabled |-> FALSE, error |-> NoError ]
FetchingMetrics == [ data |-> NoMetrics, isFetching |-> TRUE ]
FetchingTransactions ==
  [ data |-> <<>>, isFetching |-> TRUE, isEnabled |-> TRUE, isLoading |-> TRUE,
    error |-> NoError ]
DisabledTransactions ==
  [ data |-> <<>>, isFetching |-> FALSE, isEnabled |-> FALSE, isLoading |-> FALSE,
    error |-> NoError ]

\* useTransactions when the samples change from oldSpans to newSpans: the
\* slice is kept for an unchanged key and replaced for a new one.
TransactionsAfter(t, oldSpans, newSpans) ==
  IF TransactionsKey(newSpans) = TransactionsKey(oldSpans) THEN t
  ELSE IF Len(newSpans) = 0 THEN DisabledTransactions
  ELSE FetchingTransactions

\* The condition of the effect's first branch.
TransactionsBusy(t) == t.isLoading \/ t.isFetching \/ ~t.isEnabled

NoAnalytics == [ name |-> "none", count |-> 0 ]

\* A plausible slip: the event is sent whenever the transactions are ready.
LoadedEffectAlways(loaded, t) ==
  IF TransactionsBusy(t)
  THEN [ loadedSpans |-> FALSE, sent |-> NoAnalytics ]
  ELSE [ loadedSpans |-> TRUE,
         sent |-> [ name |-> "starfish.samples.loaded", count |-> Len(t.data) ] ]

\* The useEffect, run until it settles: the value of loadedSpans and the
\* trackAnalytics call it makes.
LoadedEffect(loaded, t) ==
  IF TransactionsBusy(t)
  THEN [ loadedSpans |-> FALSE, sent |-> NoAnalytics ]
  ELSE IF loaded
       THEN [ loadedSpans |-> TRUE, sent |-> NoAnalytics ]
       ELSE [ loadedSpans |-> TRUE,
              sent |-> [ name |-> "starfish.samples.loaded", count |-> Len(t.data) ] ]

\* The render of the current props and hook results.
Table == SampleTable(tableProps, spanMetrics, samples, transactions)

\* The render and the effect that follow every change of props or of a slice.
RenderAndEffect ==
  /\ loadedSpans' = LoadedEffect(loadedSpans, transactions').loadedSpans
  /\ sent' = LoadedEffect(loadedSpans, transactions').sent
  /\ pageError' = IF Table'.setPageError # Undefined
                  THEN Table'.setPageError ELSE pageError

\* A plausible slip: the button also clears the page error.
RefetchClearingError ==
  /\ samples' = [samples EXCEPT !.isFetching = TRUE]
  /\ UNCHANGED <<tableProps, spanMetrics, transactions, notSampleVars>>
  /\ pageError' = Undefined
  /\ loadedSpans' = LoadedEffect(loadedSpans, transactions').loadedSpans
  /\ sent' = LoadedEffect(loadedSpans, transactions').sent

\* The user clicks 'Try Different Samples': refetch() re-issues the samples
\* request (a request already in flight is not issued twice).
Refetch ==
  /\ samples' = [samples EXCEPT !.isFetching = TRUE]
  /\ UNCHANGED <<tableProps, spanMetrics, transactions, notSampleVars>>
  /\ RenderAndEffect

\* The samples query becomes enabled and starts fetching.
EnableSamples ==
  /\ ~samples.isEnabled
  /\ samples' = FetchingSamples
  /\ UNCHANGED <<tableProps, spanMetrics, transactions, notSampleVars>>
  /\ RenderAndEffect

\* The span metrics request completes.
SpanMetricsComplete ==
  /\ spanMetrics.isFetching
  /\ spanMetrics' = [ data |-> LoadedMetrics, isFetching |-> FALSE ]
  /\ UNCHANGED <<tableProps, samples, transactions, notSampleVars>>
  /\ RenderAndEffect

\* The samples request completes with a list of samples; useTransactions is
\* called with their transaction ids.
SamplesComplete(spans) ==
  /\ samples.isFetching
  /\ samples' = [ data |-> spans, isFetching |-> FALSE, isEnabled |-> TRUE,
                  error |-> NoError ]
  /\ transactions' = TransactionsAfter(transactions, samples.data, spans)
  /\ UNCHANGED <<tableProps, spanMetrics, notSampleVars>>
  /\ RenderAndEffect

\* The samples request fails; the samples already held stay.
SamplesFail(e) ==
  /\ samples.isFetching
  /\ samples' = [samples EXCEPT !.isFetching = FALSE, !.error = e]
  /\ UNCHANGED <<tableProps, spanMetrics, transactions, notSampleVars>>
  /\ RenderAndEffect

\* A transactions request completes. Its result may be that of a request
\* for earlier samples: any list of transactions can arrive.
TransactionsComplete(txs) ==
  /\ transactions.isFetching
  /\ transactions' = [ data |-> txs, isFetching |-> FALSE, isEnabled |-> TRUE,
                       isLoading |-> FALSE, error |-> NoError ]
  /\ UNCHANGED <<tableProps, spanMetrics, samples, notSampleVars>>
  /\ RenderAndEffect

\* The transactions request fails.
TransactionsFail(e) ==
  /\ transactions.isFetching
  /\ transactions' = [transactions EXCEPT !.isFetching = FALSE,
                                          !.isLoading = FALSE, !.error = e]
  /\ UNCHANGED <<tableProps, spanMetrics, samples, notSampleVars>>
  /\ RenderAndEffect

\* useTransactions returns another data array while it is neither loading
\* nor fetching (the cached result was updated in place; here it lost its
\* first entry).
TransactionsDataChange ==
  /\ ~TransactionsBusy(transactions)
  /\ Len(transactions.data) > 0
  /\ transactions' = [transactions EXCEPT !.data = Tail(transactions.data)]
  /\ UNCHANGED <<tableProps, spanMetrics, samples, notSampleVars>>
  /\ RenderAndEffect

\* The parent renders SampleTable with other props. A hook whose key changed
\* starts over; a hook whose key did not change keeps its slice.
ParentRerender(p) ==
  /\ p # tableProps
  /\ tableProps' = p
  /\ spanMetrics' = IF SpanMetricsKey(p) = SpanMetricsKey(tableProps)
                    THEN spanMetrics ELSE FetchingMetrics
  /\ samples' = IF SpanSamplesKey(p) = SpanSamplesKey(tableProps)
                THEN samples ELSE FetchingSamples
  /\ transactions' = TransactionsAfter(transactions, samples.data, samples'.data)
  /\ UNCHANGED notSampleVars
  /\ RenderAndEffect

\* The span the parent highlights, if any.
HighlightedSpanIds == {"s1", Undefined}

TableProps ==
  [ groupId : GroupIds, transactionName : TransactionNames,
    transactionMethod : TransactionMethods, highlightedSpanId : HighlightedSpanIds ]

SampleNext ==
  \/ Refetch
  \/ EnableSamples
  \/ SpanMetricsComplete
  \/ \E spans \in SampleLists : SamplesComplete(spans)
  \/ \E e \in FetchErrors : SamplesFail(e)
  \/ \E txs \in TransactionLists : TransactionsComplete(txs)
  \/ \E e \in FetchErrors : TransactionsFail(e)
  \/ TransactionsDataChange
  \/ \E p \in TableProps : ParentRerender(p)

\* ------------------------------------------------------------------------
\* Claims about SampleTable (checked under SampleSpec)
\* ------------------------------------------------------------------------

\* C13: every record passed to the table is a sample whose transaction is
\* absent or is a transaction with the sample's transaction id, whatever
\* transactions the slice holds.
C13_JoinMatchesTransactionId ==
  /\ Len(Table.data) = Len(samples.data)
  /\ \A i \in DOMAIN Table.data :
       /\ Table.data[i].span_id = samples.data[i].span_id
       /\ Table.data[i].transaction_id = samples.data[i].transaction_id
       /\ \/ Table.data[i].transaction.id = Undefined
          \/ /\ Table.data[i].transaction.id = Table.data[i].transaction_id
             /\ \E j \in DOMAIN transactions.data :
                  transactions.data[j] = Table.data[i].transaction

\* C13 witness: the transactions slice holds a transaction of another id
\* first; one sample is paired with its own transaction, the other with none.
C13_Witness ==
  /\ Len(Table.data) = 2
  /\ Len(transactions.data) = 2
  /\ transactions.data[1].id = "t3"
  /\ Table.data[1].transaction.id = Undefined
  /\ Table.data[2].transaction.id = "t1"

\* C14: a table that is not loading has all its slices ready: span metrics
\* and samples are not fetching, samples are enabled and, unless there are
\* no samples, transactions are not fetching.
C14_NotLoadingMeansAllReady ==
  ~Table.isLoading =>
    /\ ~spanMetrics.isFetching
    /\ samples.isEnabled
    /\ ~samples.isFetching
    /\ (Len(samples.data) = 0 \/ ~transactions.isFetching)

\* C15: when the samples or the transactions slice reports an error, the
\* page error is raised and carries an error the slices reported, and the
\* table still lists the samples that loaded.
C15_PageErrorCarriesSliceError ==
  (samples.error # NoError \/ transactions.error # NoError) =>
    /\ pageError \in {samples.error, transactions.error} \ {NoError}
    /\ Len(Table.data) = Len(samples.data)

C17_FetchKeysIgnoreOtherProps ==
  [][ /\ ( /\ tableProps'.groupId = tableProps.groupId
           /\ tableProps'.transactionName = tableProps.transactionName
           /\ tableProps'.transactionMethod = tableProps.transactionMethod )
        => /\ FetchKeys(tableProps', samples'.data).metrics
                = FetchKeys(tableProps, samples.data).metrics
           /\ FetchKeys(tableProps', samples'.data).samples
                = FetchKeys(tableProps, samples.data).samples
           /\ (tableProps' # tableProps =>
                 UNCHANGED <<spanMetrics, samples, transactions>>)
      /\ TransactionIdsOf(samples'.data) = TransactionIdsOf(samples.data)
        => FetchKeys(tableProps', samples'.data).transactions
             = FetchKeys(tableProps, samples.data).transactions ]_vars

\* C17 witness: a span is highlighted while loaded samples and transactions
\* are shown.
C17_Witness ==
  /\ tableProps.highlightedSpanId = "s1"
  /\ ~samples.isFetching
  /\ Len(samples.data) > 0
  /\ ~transactions.isFetching
  /\ Len(transactions.data) > 0

\* C21: 'starfish.samples.loaded' is sent only by a render in which the
\* transactions slice is not loading, fetching or disabled and which follows
\* a render in which it was (loadedSpans had been reset to false); the send
\* sets loadedSpans, so a second send needs such a render in between, and a
\* change of the transactions array alone sends nothing.
C21_LoadedSentOncePerLoad ==
  [][ /\ sent'.name = "starfish.samples.loaded" =>
           /\ ~TransactionsBusy(transactions')
           /\ TransactionsBusy(transactions)
           /\ ~loadedSpans
           /\ loadedSpans'
           /\ sent'.count = Len(transactions'.data)
      /\ loadedSpans' = ~TransactionsBusy(transactions')
      /\ (~TransactionsBusy(transactions) /\ ~TransactionsBusy(transactions'))
           => sent' = NoAnalytics ]_vars

\* C21 witness: the event of a completed load of two transactions has been
\* sent after an earlier failure had raised the page error.
C21_Witness ==
  /\ sent = [ name |-> "starfish.samples.loaded", count |-> 2 ]
  /\ loadedSpans
  /\ pageError = PageErrorMessage
  /\ transactions.error = NoError

\* ------------------------------------------------------------------------
\* The migration renumbering script (sampleTable.tsx lines 220-383)
\*
\* Python strings are sequences of one-character strings, so that
\* str.replace, str.split, int() and the format f"{n:04}" are computed.
\* ------------------------------------------------------------------------
MaxFiles == 2

DigitChars == <<"0", "1", "2", "3", "4", "5", "6", "7", "8", "9">>
IsDigit(c) == \E d \in 1..10 : DigitChars[d] = c
DigitValue(c) == (CHOOSE d \in 1..10 : DigitChars[d] = c) - 1

\* str(n) for n >= 0.
RECURSIVE Str(_)
Str(n) ==
  IF n < 10 THEN << DigitChars[n + 1] >>
  ELSE Str(n \div 10) \o << DigitChars[(n % 10) + 1] >>

\* int(s) for a string of decimal digits.
RECURSIVE int(_)
int(s) ==
  IF Len(s) = 0 THEN 0
  ELSE 10 * int(SubSeq(s, 1, Len(s) - 1)) + DigitValue(s[Len(s)])

\* f"{n:04}": at least four digits, padded with zeros on the left.
Pad4(n) ==
  LET s == Str(n) IN
    IF Len(s) >= 4 THEN s ELSE [ i \in 1..(4 - Len(s)) |-> "0" ] \o s

\* sub occurs in s at position i.
OccursAt(s, sub, i) ==
  /\ i + Len(sub) - 1 <= Len(s)
  /\ SubSeq(s, i, i + Len(sub) - 1) = sub

\* The glob "*sub*" matches s.
Contains(s, sub) == \E i \in 1..(Len(s) + 1) : OccursAt(s, sub, i)

\* s.replace(old, new) from position i on: every occurrence, left to right,
\* without overlap.
RECURSIVE ReplaceFrom(_, _, _, _)
ReplaceFrom(s, old, new, i) ==
  IF i > Len(s) THEN << >>
  ELSE IF OccursAt(s, old, i) THEN new \o ReplaceFrom(s, old, new, i + Len(old))
  ELSE << s[i] >> \o ReplaceFrom(s, old, new, i + 1)

\* s.replace(old, new), old not empty.
Replace(s, old, new) == ReplaceFrom(s, old, new, 1)

\* The position of the first c in s, or Len(s) + 1.
FirstPosition(s, c) ==
  IF \E i \in 1..Len(s) : s[i] = c
  THEN CHOOSE i \in 1..Len(s) : s[i] = c /\ \A j \in 1..(i - 1) : s[j] # c
  ELSE Len(s) + 1

Underscore == << "_" >>
DotPy == << ".", "p", "y" >>
TestPrefix == << "t", "e", "s", "t", "_" >>

\* MigrationMeta.full_name
full_name(meta) == Pad4(meta.number) \o Underscore \o meta.name

\* MigrationMeta.from_filename
from_filename(filepath) ==
  LET stem == SubSeq(filepath, 1, FirstPosition(filepath, ".") - 1)
      u    == FirstPosition(stem, "_")
  IN [ number |-> int(SubSeq(stem, 1, u - 1)),
       name   |-> SubSeq(stem, u + 1, Len(stem)),
       path   |-> filepath ]

NoMeta == [ number |-> -1, name |-> << >>, path |-> << >> ]

\* The app labels and the migrations a directory can hold before the run.
AppLabel == "sentry"
MigrationNumbers == {0, 1, 8, 9}
MigrationNames == { << "a" >>, << "b", "8" >> }
InitialDependency == << "0", "0", "0", "0", "_", "i" >>
OtherDependency == << "0", "0", "0", "2", "_", "o" >>

\* A migration file: its dependencies as the loaded module reports them and
\* the text of the file that names them.
MigrationFile(n, name) ==
  [ path         |-> Pad4(n) \o Underscore \o name \o DotPy,
    dependencies |-> << << AppLabel, InitialDependency >>,
                        << "other", OtherDependency >> >>,
    contents     |-> InitialDependency \o << ";" >> \o OtherDependency ]

\* A migration test file.
TestFile(n, name) ==
  [ path         |-> TestPrefix \o Pad4(n) \o Underscore \o name \o DotPy,
    migrate_from |-> InitialDependency,
    migrate_to   |-> Pad4(n) \o Underscore \o name ]

AllMigrationFiles ==
  { MigrationFile(n, name) : n \in MigrationNumbers, name \in MigrationNames }
Directories == { d \in SUBSET AllMigrationFiles : Cardinality(d) <= MaxFiles }
TestDirectories == SUBSET { TestFile(1, << "a" >>), TestFile(9, << "a" >>) }
Patterns == { << "a" >>, << "8" >>, << "9" >>, << "1", "_" >>, << "q" >> }

\* The head named by migrations_lockfile.txt for a directory.
HeadNumber(d) ==
  IF d = {} THEN 0
  ELSE CHOOSE n \in { from_filename(f.path).number : f \in d } :
         \A g \in d : from_filename(g.path).number <= n
LockfileChoices(d) ==
  IF d = {} THEN { << >> }
  ELSE { full_name(from_filename(f.path)) :
           f \in { g \in d : from_filename(g.path).number = HeadNumber(d) } }
Lockfiles == UNION { LockfileChoices(d) : d \in Directories }

NoLocals == [ migration_meta |-> NoMeta, current_head |-> NoMeta, new_name |-> << >> ]

\* pathlib.Path(migrations_path).glob(f"*{migration}*")
MigrationMatches(files, migration) ==
  { f \in files : Contains(f.path, migration) }

\* pathlib.Path(migrations_path).glob("[0-9]*")
NumberedMatches(files) == { f \in files : IsDigit(f.path[1]) }

\* The metas find_highest_migration can return: a file of the greatest
\* number above 0; among files of that number, the first in glob order.
HighestCandidates(files) ==
  { m \in { from_filename(f.path) : f \in NumberedMatches(files) } :
      /\ m.number > 0
      /\ \A f \in NumberedMatches(files) : from_filename(f.path).number <= m.number }

\* new_name = migration_meta.full_name.replace(str(number), str(head + 1))
NewName(meta, head) ==
  Replace(full_name(meta), Str(meta.number), Str(head.number + 1))

\* The dependency loop: every same-app dependency name is replaced in the text.
RECURSIVE RewriteDependencies(_, _, _, _)
RewriteDependencies(contents, dependencies, app_label, head) ==
  IF Len(dependencies) = 0 THEN contents
  ELSE RewriteDependencies(
         IF dependencies[1][1] = app_label
         THEN Replace(contents, dependencies[1][2], full_name(head))
         ELSE contents,
         Tail(dependencies), app_label, head)

\* find_migration: more than one match or no match aborts.
FindMigration ==
  /\ pc = "start"
  /\ LET matches == MigrationMatches(fs.migrations, argv.migration) IN
       IF Cardinality(matches) # 1
       THEN /\ pc' = "aborted"
            /\ UNCHANGED frame
       ELSE /\ pc' = "found"
            /\ frame' = [frame EXCEPT !.migration_meta =
                           from_filename((CHOOSE f \in matches : TRUE).path)]
  /\ UNCHANGED <<argv, fs, fs0, notMigVars>>

\* A plausible slip: the lockfile is opened for writing before the head is
\* known, which empties it.
FindHighestMigrationAfterOpen ==
  /\ pc = "found"
  /\ IF HighestCandidates(fs.migrations) = {}
     THEN /\ pc' = "aborted"
          /\ fs' = [fs EXCEPT !.lockfile = << >>]
          /\ UNCHANGED frame
     ELSE /\ pc' = "head"
          /\ \E m \in HighestCandidates(fs.migrations) :
               frame' = [frame EXCEPT !.current_head = m]
          /\ UNCHANGED fs
  /\ UNCHANGED <<argv, fs0, notMigVars>>

\* find_highest_migration: no migration with a number above 0 aborts.
FindHighestMigration ==
  /\ pc = "found"
  /\ IF HighestCandidates(fs.migrations) = {}
     THEN /\ pc' = "aborted"
          /\ UNCHANGED frame
     ELSE /\ pc' = "head"
          /\ \E m \in HighestCandidates(fs.migrations) :
               frame' = [frame EXCEPT !.current_head = m]
  /\ UNCHANGED <<argv, fs, fs0, notMigVars>>

\* main, lines 322-337: the module is loaded, new_name is computed and the
\* migration file is written with its dependencies rewritten.
WriteDependencies ==
  /\ pc = "head"
  /\ LET file == CHOOSE f \in fs.migrations : f.path = frame.migration_meta.path
         written == [file EXCEPT !.contents =
                       RewriteDependencies(file.contents, file.dependencies,
                                           argv.app_label, frame.current_head)]
     IN /\ frame' = [frame EXCEPT !.new_name =
                       NewName(frame.migration_meta, frame.current_head)]
        /\ fs' = [fs EXCEPT !.migrations = (fs.migrations \ {file}) \cup {written}]
  /\ pc' = "written"
  /\ UNCHANGED <<argv, fs0, notMigVars>>

\* main, lines 339-340: os.rename replaces a file already at the new path.
RenameMigration ==
  /\ pc = "written"
  /\ LET file == CHOOSE f \in fs.migrations : f.path = frame.migration_meta.path
         path == frame.new_name \o DotPy
     IN fs' = [fs EXCEPT !.migrations =
                 { f \in fs.migrations : f.path \notin {file.path, path} }
                   \cup { [file EXCEPT !.path = path] }]
  /\ pc' = "renamed"
  /\ UNCHANGED <<argv, frame, fs0, notMigVars>>

\* main, lines 342-349.
UpdateLockfile ==
  /\ pc = "renamed"
  /\ fs' = [fs EXCEPT !.lockfile =
              Replace(fs.lockfile, full_name(frame.current_head), frame.new_name)]
  /\ pc' = "locked"
  /\ UNCHANGED <<argv, frame, fs0, notMigVars>>

\* main, lines 351-380: the test file is rewritten and renamed when exactly
\* one test file name contains the migration's number.
UpdateTest ==
  /\ pc = "locked"
  /\ LET matches == { f \in fs.tests :
                        Contains(f.path, Str(frame.migration_meta.number)) }
         path == TestPrefix \o frame.new_name \o DotPy
     IN IF Cardinality(matches) = 1
        THEN LET file == CHOOSE f \in matches : TRUE IN
               fs' = [fs EXCEPT !.tests =
                        { f \in fs.tests : f.path \notin {file.path, path} }
                          \cup { [ path         |-> path,
                                   migrate_from |-> full_name(frame.current_head),
                                   migrate_to   |-> frame.new_name ] }]
        ELSE UNCHANGED fs
  /\ pc' = "done"
  /\ UNCHANGED <<argv, frame, fs0, notMigVars>>

MigrationNext ==
  \/ FindMigration
  \/ FindHighestMigration
  \/ WriteDependencies
  \/ RenameMigration
  \/ UpdateLockfile
  \/ UpdateTest

\* ------------------------------------------------------------------------
\* Claims about the migration renumbering script (checked under MigrationSpec)
\* ------------------------------------------------------------------------

\* C18: after a successful run on migration NNNN_name with head number h the
\* migration file is named f"{h+1:04}_name.py" and is the only migration of
\* the highest number, its same-app dependency names the previous head, and
\* the lockfile names the new migration instead of the previous head.
C18_RenumberedToHeadPlusOne ==
  pc = "done" =>
    LET head     == frame.current_head
        expected == Pad4(head.number + 1) \o Underscore \o frame.migration_meta.name
    IN /\ frame.new_name = expected
       /\ \E f \in fs.migrations :
            /\ f.path = expected \o DotPy
            /\ f.contents = full_name(head) \o << ";" >> \o OtherDependency
       /\ \A f \in fs.migrations :
            f.path # expected \o DotPy => from_filename(f.path).number <= head.number
       /\ (Contains(fs0.lockfile, full_name(head)) =>
             /\ Contains(fs.lockfile, expected)
             /\ ~Contains(fs.lockfile, full_name(head)))

\* C19: a run aborts when the pattern matches no file or several files, or
\* when no migration has a number above 0, and an aborted run has written
\* and renamed nothing: migrations, lockfile and tests are as before.
C19_AbortWritesNothing ==
  /\ pc = "aborted" => fs = fs0
  /\ ( /\ pc # "start"
       /\ Cardinality(MigrationMatches(fs0.migrations, argv.migration)) # 1 )
       => pc = "aborted"
  /\ ( /\ pc \notin {"start", "found"}
       /\ HighestCandidates(fs0.migrations) = {} )
       => pc = "aborted"

\* C19 witness: the pattern matched exactly one migration and the run
\* aborted for want of a head, with a lockfile and a test file present.
C19_Witness ==
  /\ pc = "aborted"
  /\ frame.migration_meta # NoMeta
  /\ fs.lockfile # << >>
  /\ fs.tests # {}

\* ------------------------------------------------------------------------
\* SentryAppAvatar (sentryAppAvatar.tsx lines 1-38)
\* ------------------------------------------------------------------------
MaxAvatars == 2

\* The avatars an app can carry: one per colour when reverted to the default
\* type, and uploads with their own uuid.
Avatars ==
  [ color : {"true", "false"}, avatarType : {"default"}, avatarUuid : {"u0"} ]
    \cup [ color : {"true", "false"}, avatarType : {"upload"}, avatarUuid : {"u1", "u2"} ]

AvatarLists == UNION { [1..k -> Avatars] : k \in 0..MaxAvatars }

\* sentryApp: undefined, an app without an avatars field, or an app with one.
NoSentryApp == [ defined |-> FALSE, name |-> Undefined, hasAvatars |-> FALSE, avatars |-> << >> ]
SentryApps ==
  { NoSentryApp,
    [ defined |-> TRUE, name |-> "app", hasAvatars |-> FALSE, avatars |-> << >> ] }
    \cup { [ defined |-> TRUE, name |-> "app", hasAvatars |-> TRUE, avatars |-> l ] :
             l \in AvatarLists }

AvatarProps == [ isColor : OptBool, isDefault : OptBool, sentryApp : SentryApps ]

\* defaultSentryAppAvatar
defaultSentryAppAvatar ==
  [ type |-> "IconGeneric", testId |-> "default-sentry-app-avatar",
    avatarType |-> Undefined, uploadPath |-> Undefined, uploadId |-> Undefined,
    title |-> Undefined, backupAvatar |-> Undefined ]

\* A plausible slip: the last avatar of the colour is taken instead of the first.
SentryAppAvatarLast(props) ==
  LET isColor  == IF props.isColor = Undefined THEN "true" ELSE props.isColor
      avatars  == props.sentryApp.avatars
      found    == { i \in DOMAIN avatars : avatars[i].color = isColor }
      details  == avatars[CHOOSE i \in found : \A j \in found : j <= i]
  IN IF props.isDefault = "true" \/ found = {} THEN defaultSentryAppAvatar
     ELSE IF details.avatarType = "default" THEN defaultSentryAppAvatar
     ELSE [ type |-> "BaseAvatar", testId |-> Undefined,
            avatarType |-> "upload", uploadPath |-> "sentry-app-avatar",
            uploadId |-> details.avatarUuid, title |-> props.sentryApp.name,
            backupAvatar |-> "IconGeneric" ]

\* SentryAppAvatar: the element one render returns.
SentryAppAvatar(props) ==
  LET isColor  == IF props.isColor = Undefined THEN "true" ELSE props.isColor
      avatars  == props.sentryApp.avatars
      found    == { i \in DOMAIN avatars : avatars[i].color = isColor }
      details  == avatars[CHOOSE i \in found : \A j \in found : i <= j]
  IN IF props.isDefault = "true" \/ found = {} THEN defaultSentryAppAvatar
     ELSE IF details.avatarType = "default" THEN defaultSentryAppAvatar
     ELSE [ type |-> "BaseAvatar", testId |-> Undefined,
            avatarType |-> "upload", uploadPath |-> "sentry-app-avatar",
            uploadId |-> details.avatarUuid, title |-> props.sentryApp.name,
            backupAvatar |-> "IconGeneric" ]

\* The parent renders the avatar with another isColor.
SetIsColor(b) ==
  /\ b # avatarProps.isColor
  /\ avatarProps' = [avatarProps EXCEPT !.isColor = b]
  /\ avatarTree' = SentryAppAvatar(avatarProps')
  /\ UNCHANGED notAvatarVars

\* The parent renders the avatar with another isDefault.
SetIsDefault(b) ==
  /\ b # avatarProps.isDefault
  /\ avatarProps' = [avatarProps EXCEPT !.isDefault = b]
  /\ avatarTree' = SentryAppAvatar(avatarProps')
  /\ UNCHANGED notAvatarVars

\* The parent renders the avatar with another sentryApp.
SetSentryApp(app) ==
  /\ app # avatarProps.sentryApp
  /\ avatarProps' = [avatarProps EXCEPT !.sentryApp = app]
  /\ avatarTree' = SentryAppAvatar(avatarProps')
  /\ UNCHANGED notAvatarVars

AvatarNext ==
  \/ \E b \in OptBool : SetIsColor(b)
  \/ \E b \in OptBool : SetIsDefault(b)
  \/ \E app \in SentryApps : SetSentryApp(app)

\* ------------------------------------------------------------------------
\* Claims about SentryAppAvatar (checked under AvatarSpec)
\* ------------------------------------------------------------------------

\* C20: the default icon is rendered iff isDefault is set, or no avatar has
\* the colour flag isColor (true when not given), or the first such avatar is
\* of type 'default'; otherwise the upload avatar with the uuid of the first
\* avatar of that colour is rendered, with the default icon as its backup.
C20_DefaultIconIff ==
  LET wanted   == IF avatarProps.isColor = Undefined THEN "true" ELSE avatarProps.isColor
      avatars  == avatarProps.sentryApp.avatars
      ofColour == SelectSeq(avatars, LAMBDA a : a.color = wanted)
      default  == \/ avatarProps.isDefault = "true"
                  \/ Len(ofColour) = 0
                  \/ Head(ofColour).avatarType = "default"
  IN /\ (avatarTree.type = "IconGeneric") <=> default
     /\ avatarTree.type \in {"IconGeneric", "BaseAvatar"}
     /\ ~default =>
          /\ avatarTree.type = "BaseAvatar"
          /\ avatarTree.avatarType = "upload"
          /\ avatarTree.uploadId = Head(ofColour).avatarUuid
          /\ avatarTree.backupAvatar = "IconGeneric"

\* C20 witness: the first avatar of the wanted colour is an upload and a
\* later one of that colour is not; the upload is rendered.
C20_Witness ==
  /\ avatarProps.isColor = "false"
  /\ avatarProps.isDefault = Undefined
  /\ Len(avatarProps.sentryApp.avatars) = 2
  /\ avatarProps.sentryApp.avatars[1] =
       [ color |-> "false", avatarType |-> "upload", avatarUuid |-> "u2" ]
  /\ avatarProps.sentryApp.avatars[2].color = "false"
  /\ avatarProps.sentryApp.avatars[2].avatarType = "default"
  /\ avatarTree.type = "BaseAvatar"
  /\ avatarTree.uploadId = "u2"

\* ------------------------------------------------------------------------
\* EventReplay (components/events/eventReplay/index.tsx)
\* ------------------------------------------------------------------------

\* An event date that is not set, and the dates (in ms) an event can carry.
NoDate == -1
EventDates == {NoDate, 1500, 2000}

\* What getReplayIdFromEvent can return: no id, an empty id, an id.
ReplayIds == {Undefined, "", "r1"}

\* The events the parent can pass: [replayId, dateCreated, dateReceived].
Events == [ replayId : ReplayIds, dateCreated : EventDates, dateReceived : EventDates ]

\* The result of useHasOrganizationSentAnyReplayEvents.
ReplayChecks == [ fetching : BOOLEAN, hasOrgSentReplays : BOOLEAN ]

\* JavaScript truthiness of a replay id.
HasReplayId(id) == id \notin {Undefined, ""}

\* Math.floor(new Date(timeOfEvent).getTime() / 1000) * 1000, or 0
eventTimestampMs(event) ==
  LET timeOfEvent == IF event.dateCreated # NoDate
                     THEN event.dateCreated ELSE event.dateReceived
  IN IF timeOfEvent # NoDate THEN (timeOfEvent \div 1000) * 1000 ELSE 0

RendersNothing == [ type |-> "null", replaySlug |-> Undefined, eventTimestampMs |-> 0 ]
OnboardingPanel == [ type |-> "onboardingPanel", replaySlug |-> Undefined, eventTimestampMs |-> 0 ]

\* A plausible slip: the replay id is tested before the onboarding case.
EventReplayContentIdFirst(event, replayId, check) ==
  IF check.fetching THEN RendersNothing
  ELSE IF ~HasReplayId(replayId) THEN RendersNothing
  ELSE IF ~check.hasOrgSentReplays THEN OnboardingPanel
  ELSE [ type |-> "replayPreview", replaySlug |-> replayId,
         eventTimestampMs |-> eventTimestampMs(event) ]

\* EventReplayContent: what one render returns.
EventReplayContent(event, replayId, check) ==
  IF check.fetching THEN RendersNothing
  ELSE IF ~check.hasOrgSentReplays THEN OnboardingPanel
  ELSE IF ~HasReplayId(replayId) THEN RendersNothing
  ELSE [ type |-> "replayPreview", replaySlug |-> replayId,
         eventTimestampMs |-> eventTimestampMs(event) ]

\* EventReplay: what one render returns.
EventReplay(p, check) ==
  LET replayId == p.event.replayId IN
    IF ~p.hasReplaysFeature THEN RendersNothing
    ELSE IF HasReplayId(replayId) \/ p.canUpsellReplay
         THEN EventReplayContent(p.event, replayId, check)
         ELSE RendersNothing

\* The has-sent-replays check finishes with an answer.
ReplayCheckComplete(b) ==
  /\ replayCheck.fetching
  /\ replayCheck' = [ fetching |-> FALSE, hasOrgSentReplays |-> b ]
  /\ replayTree' = EventReplay(replayProps, replayCheck')
  /\ UNCHANGED <<replayProps, notReplayVars>>

\* The has-sent-replays check is made again.
ReplayCheckRefetch ==
  /\ ~replayCheck.fetching
  /\ replayCheck' = [replayCheck EXCEPT !.fetching = TRUE]
  /\ replayTree' = EventReplay(replayProps, replayCheck')
  /\ UNCHANGED <<replayProps, notReplayVars>>

\* The parent renders EventReplay with another event.
RenderEvent(e) ==
  /\ e # replayProps.event
  /\ replayProps' = [replayProps EXCEPT !.event = e]
  /\ replayTree' = EventReplay(replayProps', replayCheck)
  /\ UNCHANGED <<replayCheck, notReplayVars>>

\* useProjectFromSlug resolves to another project, or the organization's
\* features change.
RenderProject(feature, upsell) ==
  /\ <<feature, upsell>> # <<replayProps.hasReplaysFeature, replayProps.canUpsellReplay>>
  /\ replayProps' = [replayProps EXCEPT !.hasReplaysFeature = feature,
                                        !.canUpsellReplay = upsell]
  /\ replayTree' = EventReplay(replayProps', replayCheck)
  /\ UNCHANGED <<replayCheck, notReplayVars>>

ReplayNext ==
  \/ \E b \in BOOLEAN : ReplayCheckComplete(b)
  \/ ReplayCheckRefetch
  \/ \E e \in Events : RenderEvent(e)
  \/ \E feature \in BOOLEAN, upsell \in BOOLEAN : RenderProject(feature, upsell)

\* ------------------------------------------------------------------------
\* Claims about EventReplay (checked under ReplaySpec)
\* ------------------------------------------------------------------------

\* C22: nothing is rendered unless the organization has 'session-replay' and
\* the event has a replay id or the project can upsell replay; given that,
\* nothing is rendered while the check is fetching, the onboarding panel iff
\* the check finished and no replays were sent, the preview iff the check
\* finished, replays were sent and the event has a replay id; the outcome is
\* exactly one of nothing, onboarding panel and preview.
C22_DecisionTable ==
  LET hasId  == HasReplayId(replayProps.event.replayId)
      gate   == replayProps.hasReplaysFeature /\ (hasId \/ replayProps.canUpsellReplay)
      done   == ~replayCheck.fetching
      sentAny == replayCheck.hasOrgSentReplays
  IN /\ replayTree.type \in {"null", "onboardingPanel", "replayPreview"}
     /\ ~gate => replayTree.type = "null"
     /\ (gate /\ ~done) => replayTree.type = "null"
     /\ (replayTree.type = "onboardingPanel") <=> (gate /\ done /\ ~sentAny)
     /\ (replayTree.type = "replayPreview") <=> (gate /\ done /\ sentAny /\ hasId)
     /\ (replayTree.type = "null") <=>
          ~((gate /\ done /\ ~sentAny) \/ (gate /\ done /\ sentAny /\ hasId))
     /\ replayTree.type = "replayPreview" =>
          replayTree.replaySlug = replayProps.event.replayId

\* C22 witness: the onboarding panel is shown for an event that has a replay
\* id, in an organization that has sent no replays.
C22_Witness ==
  /\ replayTree.type = "onboardingPanel"
  /\ replayProps.event.replayId = "r1"
  /\ ~replayProps.canUpsellReplay
  /\ ~replayCheck.fetching

\* ------------------------------------------------------------------------
\* Matrix (unnamed/part_000 lines 181-280)
\* ------------------------------------------------------------------------
MaxValues == 2

\* The props of the rendered component and the values a story lists.
PropNames == {"size", "busy", "children"}
PropValues == {"a", "b"}

\* One entry of propMatrix: the key is missing, or it holds a list of values.
MissingProp == [ present |-> FALSE, values |-> << >> ]
ValueLists == UNION { [1..k -> PropValues] : k \in 0..MaxValues }
PropEntries == {MissingProp} \cup { [ present |-> TRUE, values |-> l ] : l \in ValueLists }
ChildrenEntries ==
  { MissingProp, [ present |-> TRUE, values |-> << >> ],
    [ present |-> TRUE, values |-> << "a" >> ] }

\* lodash first(values)
first(values) == IF Len(values) = 0 THEN Undefined ELSE values[1]

\* Object.fromEntries(Object.entries(propMatrix).map(([key, values]) =>
\* [key, first(values)])): keys that propMatrix lacks are absent.
defaultValues(matrix) ==
  [ k \in PropNames |->
      IF matrix[k].present THEN first(matrix[k].values) ELSE Absent ]

\* propMatrix[prop] ?? []
valuesOf(matrix, prop) == matrix[prop].values

\* item: the SizingWindow around the component with its props.
item(props) ==
  [ kind |-> "cell", name |-> Undefined, value |-> Undefined, props |-> props,
    hasChildren |-> props["children"] # Absent ]

\* The label of a row.
label(name, value) ==
  [ kind |-> "label", name |-> name, value |-> value,
    props |-> [ k \in PropNames |-> Absent ], hasChildren |-> FALSE ]

\* A plausible slip: the defaults are spread after the selected values.
cellPropsDefaultsLast(defaults, p1, value1, p2, value2) ==
  [ k \in PropNames |->
      IF defaults[k] # Absent THEN defaults[k]
      ELSE IF k = p2 THEN value2
      ELSE IF k = p1 THEN value1
      ELSE Absent ]

\* {...defaultValues, [selectedProps[0]]: value1, [selectedProps[1]]: value2}
cellProps(defaults, p1, value1, p2, value2) ==
  Spread(Spread(defaults, p1, value1), p2, value2)

\* values1.flatMap(value1 => [label, ...content]) from position i on.
RECURSIVE flatMapRows(_, _, _, _, _, _)
flatMapRows(defaults, p1, values1, p2, values2, i) ==
  IF i > Len(values1) THEN << >>
  ELSE << label(p1, values1[i]) >>
         \o [ j \in 1..Len(values2) |->
                item(cellProps(defaults, p1, values1[i], p2, values2[j])) ]
         \o flatMapRows(defaults, p1, values1, p2, values2, i + 1)

\* Matrix: the heading, the column titles and the items of the grid.
Matrix(matrix, selected) ==
  LET values1 == valuesOf(matrix, selected[1])
      values2 == valuesOf(matrix, selected[2])
  IN [ heading |-> selected,
       columns |-> Len(values2),
       titles  |-> [ j \in 1..Len(values2) |-> label(selected[2], values2[j]) ],
       items   |-> flatMapRows(defaultValues(matrix), selected[1], values1,
                               selected[2], values2, 1) ]

\* The story is rendered with other selected props.
SelectProps(p1, p2) ==
  /\ <<p1, p2>> # selectedProps
  /\ selectedProps' = <<p1, p2>>
  /\ matrixTree' = Matrix(propMatrix, selectedProps')
  /\ UNCHANGED <<propMatrix, notMatrixVars>>

\* The story is rendered with another list of values for one prop.
SetPropValues(prop, entry) ==
  /\ entry # propMatrix[prop]
  /\ propMatrix' = [propMatrix EXCEPT ![prop] = entry]
  /\ matrixTree' = Matrix(propMatrix', selectedProps)
  /\ UNCHANGED <<selectedProps, notMatrixVars>>

MatrixNext ==
  \/ \E p1 \in PropNames, p2 \in PropNames : SelectProps(p1, p2)
  \/ \E prop \in PropNames \ {"children"}, entry \in PropEntries :
       SetPropValues(prop, entry)
  \/ \E entry \in ChildrenEntries : SetPropValues("children", entry)

\* ------------------------------------------------------------------------
\* Claims about Matrix (checked under MatrixSpec)
\* ------------------------------------------------------------------------

\* The shape of the grid body: for each value of the first selected prop one
\* label followed by one cell per value of the second; a selected prop that
\* propMatrix lacks has no values.
MatrixShape ==
  LET p1 == selectedProps[1]
      p2 == selectedProps[2]
      V1 == IF propMatrix[p1].present THEN propMatrix[p1].values ELSE << >>
      V2 == IF propMatrix[p2].present THEN propMatrix[p2].values ELSE << >>
      at(i, j) == matrixTree.items[(i - 1) * (1 + Len(V2)) + 1 + j]
  IN /\ Len(matrixTree.items) = Len(V1) * (1 + Len(V2))
     /\ \A i \in 1..Len(V1) :
          /\ at(i, 0).kind = "label"
          /\ at(i, 0).name = p1
          /\ at(i, 0).value = V1[i]
          /\ \A j \in 1..Len(V2) : at(i, j).kind = "cell"
     /\ Len(V1) = 0 => \A k \in DOMAIN matrixTree.items : matrixTree.items[k].kind # "cell"

\* The props of the other keys of a cell: the first listed value of every
\* prop of propMatrix.
MatrixDefaultsElsewhere ==
  LET p1 == selectedProps[1]
      p2 == selectedProps[2]
      n2 == Len(propMatrix[p2].values)
  IN \A i \in 1..Len(propMatrix[p1].values), j \in 1..n2 :
       \A k \in PropNames \ {p1, p2} :
         matrixTree.items[(i - 1) * (1 + n2) + 1 + j].props[k] =
           IF propMatrix[k].present
           THEN (IF Len(propMatrix[k].values) > 0 THEN propMatrix[k].values[1] ELSE Undefined)
           ELSE Absent

\* C24 as stated: the grid body has the stated shape and every cell's props
\* are the default props overridden with p1 = v1 and p2 = v2.
C24_CellsOverrideBothProps ==
  LET p1 == selectedProps[1]
      p2 == selectedProps[2]
      V1 == propMatrix[p1].values
      V2 == propMatrix[p2].values
  IN /\ MatrixShape
     /\ MatrixDefaultsElsewhere
     /\ \A i \in 1..Len(V1), j \in 1..Len(V2) :
          LET cell == matrixTree.items[(i - 1) * (1 + Len(V2)) + 1 + j] IN
            /\ cell.props[p1] = V1[i]
            /\ cell.props[p2] = V2[j]

\* C24 amended: as above, with p1 = v1 applied first and p2 = v2 second, so
\* that a cell of a prop selected twice carries v2.
C24_CellsOverrideInOrder ==
  LET p1 == selectedProps[1]
      p2 == selectedProps[2]
      V1 == propMatrix[p1].values
      V2 == propMatrix[p2].values
  IN /\ MatrixShape
     /\ MatrixDefaultsElsewhere
     /\ \A i \in 1..Len(V1), j \in 1..Len(V2) :
          LET cell == matrixTree.items[(i - 1) * (1 + Len(V2)) + 1 + j] IN
            /\ cell.props[p2] = V2[j]
            /\ p1 # p2 => cell.props[p1] = V1[i]

\* C24 witness: two props with two values each are selected, a third prop
\* contributes its default, and the last cell carries the second values.
C24_Witness ==
  /\ selectedProps = << "size", "busy" >>
  /\ propMatrix["size"].values = << "a", "b" >>
  /\ propMatrix["busy"].values = << "b", "a" >>
  /\ propMatrix["children"].values = << "a" >>
  /\ Len(matrixTree.items) = 6
  /\ matrixTree.items[6].props =
       [ k \in PropNames |-> CASE k = "size" -> "b" [] k = "busy" -> "a" [] OTHER -> "a" ]

\* ------------------------------------------------------------------------
\* Specifications: one per component, the other component at rest.
\* ------------------------------------------------------------------------
AccInit ==
  /\ items \in ItemLists(MaxItems)
  /\ expandedIndex \in -1..MaxItems
  /\ buttonOnLeft \in OptBool
  /\ tree = Accordion(expandedIndex, items, buttonOnLeft)
  /\ contentCalls = ContentInvocations(expandedIndex, items)
  /\ lastClick = NoClick
  /\ location = [ pathname |-> "/performance/vitaldetail/",
                  query |-> [ k \in Keys |-> Absent ] ]
  /\ vitalName = LCP
  /\ error = Undefined
  /\ totalEventsCount = 0
  /\ pending = NoPush
  /\ tracked = NoEvent
  /\ countFrom = "initial"
  /\ tableProps = [ groupId |-> "g1", transactionName |-> "/api/a",
                    transactionMethod |-> "GET", highlightedSpanId |-> Undefined ]
  /\ spanMetrics = FetchingMetrics
  /\ samples = DisabledSamples
  /\ transactions = DisabledTransactions
  /\ loadedSpans = FALSE
  /\ pageError = Undefined
  /\ sent = NoAnalytics
  /\ pc = "start"
  /\ argv = [ migration |-> << "q" >>, app_label |-> AppLabel ]
  /\ fs = [ migrations |-> {}, lockfile |-> << >>, tests |-> {} ]
  /\ frame = NoLocals
  /\ fs0 = [ migrations |-> {}, lockfile |-> << >>, tests |-> {} ]
  /\ avatarProps = [ isColor |-> Undefined, isDefault |-> Undefined,
                     sentryApp |-> NoSentryApp ]
  /\ avatarTree = defaultSentryAppAvatar
  /\ replayProps = [ event |-> [ replayId |-> Undefined, dateCreated |-> NoDate,
                                  dateReceived |-> NoDate ],
                     hasReplaysFeature |-> FALSE, canUpsellReplay |-> FALSE ]
  /\ replayCheck = [ fetching |-> TRUE, hasOrgSentReplays |-> FALSE ]
  /\ replayTree = RendersNothing
  /\ propMatrix = [ k \in PropNames |-> MissingProp ]
  /\ selectedProps = << "size", "busy" >>
  /\ matrixTree = Matrix(propMatrix, selectedProps)


VitalInit ==
  /\ location \in [pathname : Pathnames, query : QueryMaps]
  /\ vitalName = vitalNameFromLocation(location)
  /\ error = Undefined
  /\ totalEventsCount = 0
  /\ pending = NoPush
  /\ tracked = NoEvent
  /\ countFrom = "initial"
  /\ tableProps = [ groupId |-> "g1", transactionName |-> "/api/a",
                    transactionMethod |-> "GET", highlightedSpanId |-> Undefined ]
  /\ spanMetrics = FetchingMetrics
  /\ samples = DisabledSamples
  /\ transactions = DisabledTransactions
  /\ loadedSpans = FALSE
  /\ pageError = Undefined
  /\ sent = NoAnalytics
  /\ items = <<>>
  /\ expandedIndex = 0
  /\ buttonOnLeft = Undefined
  /\ tree = <<>>
  /\ contentCalls = <<>>
  /\ lastClick = NoClick
  /\ pc = "start"
  /\ argv = [ migration |-> << "q" >>, app_label |-> AppLabel ]
  /\ fs = [ migrations |-> {}, lockfile |-> << >>, tests |-> {} ]
  /\ frame = NoLocals
  /\ fs0 = [ migrations |-> {}, lockfile |-> << >>, tests |-> {} ]
  /\ avatarProps = [ isColor |-> Undefined, isDefault |-> Undefined,
                     sentryApp |-> NoSentryApp ]
  /\ avatarTree = defaultSentryAppAvatar
  /\ replayProps = [ event |-> [ replayId |-> Undefined, dateCreated |-> NoDate,
                                  dateReceived |-> NoDate ],
                     hasReplaysFeature |-> FALSE, canUpsellReplay |-> FALSE ]
  /\ replayCheck = [ fetching |-> TRUE, hasOrgSentReplays |-> FALSE ]
  /\ replayTree = RendersNothing
  /\ propMatrix = [ k \in PropNames |-> MissingProp ]
  /\ selectedProps = << "size", "busy" >>
  /\ matrixTree = Matrix(propMatrix, selectedProps)


SampleInit ==
  /\ tableProps \in TableProps
  /\ spanMetrics = FetchingMetrics
  /\ samples \in {DisabledSamples, FetchingSamples}
  /\ transactions = DisabledTransactions
  /\ loadedSpans = FALSE
  /\ pageError = Undefined
  /\ sent = NoAnalytics
  /\ items = <<>>
  /\ expandedIndex = 0
  /\ buttonOnLeft = Undefined
  /\ tree = <<>>
  /\ contentCalls = <<>>
  /\ lastClick = NoClick
  /\ location = [ pathname |-> "/performance/vitaldetail/",
                  query |-> [ k \in Keys |-> Absent ] ]
  /\ vitalName = LCP
  /\ error = Undefined
  /\ totalEventsCount = 0
  /\ pending = NoPush
  /\ tracked = NoEvent
  /\ countFrom = "initial"
  /\ pc = "start"
  /\ argv = [ migration |-> << "q" >>, app_label |-> AppLabel ]
  /\ fs = [ migrations |-> {}, lockfile |-> << >>, tests |-> {} ]
  /\ frame = NoLocals
  /\ fs0 = [ migrations |-> {}, lockfile |-> << >>, tests |-> {} ]
  /\ avatarProps = [ isColor |-> Undefined, isDefault |-> Undefined,
                     sentryApp |-> NoSentryApp ]
  /\ avatarTree = defaultSentryAppAvatar
  /\ replayProps = [ event |-> [ replayId |-> Undefined, dateCreated |-> NoDate,
                                  dateReceived |-> NoDate ],
                     hasReplaysFeature |-> FALSE, canUpsellReplay |-> FALSE ]
  /\ replayCheck = [ fetching |-> TRUE, hasOrgSentReplays |-> FALSE ]
  /\ replayTree = RendersNothing
  /\ propMatrix = [ k \in PropNames |-> MissingProp ]
  /\ selectedProps = << "size", "busy" >>
  /\ matrixTree = Matrix(propMatrix, selectedProps)

MigrationInit ==
  /\ pc = "start"
  /\ argv \in [ migration : Patterns, app_label : {AppLabel} ]
  /\ fs \in { [ migrations |-> d, lockfile |-> l, tests |-> t ] :
                d \in Directories, l \in Lockfiles, t \in TestDirectories }
  /\ fs.lockfile \in LockfileChoices(fs.migrations)
  /\ frame = NoLocals
  /\ fs0 = fs
  /\ items = <<>>
  /\ expandedIndex = 0
  /\ buttonOnLeft = Undefined
  /\ tree = <<>>
  /\ contentCalls = <<>>
  /\ lastClick = NoClick
  /\ location = [ pathname |-> "/performance/vitaldetail/",
                  query |-> [ k \in Keys |-> Absent ] ]
  /\ vitalName = LCP
  /\ error = Undefined
  /\ totalEventsCount = 0
  /\ pending = NoPush
  /\ tracked = NoEvent
  /\ countFrom = "initial"
  /\ tableProps = [ groupId |-> "g1", transactionName |-> "/api/a",
                    transactionMethod |-> "GET", highlightedSpanId |-> Undefined ]
  /\ spanMetrics = FetchingMetrics
  /\ samples = DisabledSamples
  /\ transactions = DisabledTransactions
  /\ loadedSpans = FALSE
  /\ pageError = Undefined
  /\ sent = NoAnalytics
  /\ avatarProps = [ isColor |-> Undefined, isDefault |-> Undefined,
                     sentryApp |-> NoSentryApp ]
  /\ avatarTree = defaultSentryAppAvatar
  /\ replayProps = [ event |-> [ replayId |-> Undefined, dateCreated |-> NoDate,
                                  dateReceived |-> NoDate ],
                     hasReplaysFeature |-> FALSE, canUpsellReplay |-> FALSE ]
  /\ replayCheck = [ fetching |-> TRUE, hasOrgSentReplays |-> FALSE ]
  /\ replayTree = RendersNothing
  /\ propMatrix = [ k \in PropNames |-> MissingProp ]
  /\ selectedProps = << "size", "busy" >>
  /\ matrixTree = Matrix(propMatrix, selectedProps)

AvatarInit ==
  /\ avatarProps \in [ isColor : OptBool, isDefault : OptBool, sentryApp : {NoSentryApp} ]
  /\ avatarTree = SentryAppAvatar(avatarProps)
  /\ items = <<>>
  /\ expandedIndex = 0
  /\ buttonOnLeft = Undefined
  /\ tree = <<>>
  /\ contentCalls = <<>>
  /\ lastClick = NoClick
  /\ location = [ pathname |-> "/performance/vitaldetail/",
                  query |-> [ k \in Keys |-> Absent ] ]
  /\ vitalName = LCP
  /\ error = Undefined
  /\ totalEventsCount = 0
  /\ pending = NoPush
  /\ tracked = NoEvent
  /\ countFrom = "initial"
  /\ tableProps = [ groupId |-> "g1", transactionName |-> "/api/a",
                    transactionMethod |-> "GET", highlightedSpanId |-> Undefined ]
  /\ spanMetrics = FetchingMetrics
  /\ samples = DisabledSamples
  /\ transactions = DisabledTransactions
  /\ loadedSpans = FALSE
  /\ pageError = Undefined
  /\ sent = NoAnalytics
  /\ pc = "start"
  /\ argv = [ migration |-> << "q" >>, app_label |-> AppLabel ]
  /\ fs = [ migrations |-> {}, lockfile |-> << >>, tests |-> {} ]
  /\ frame = NoLocals
  /\ fs0 = [ migrations |-> {}, lockfile |-> << >>, tests |-> {} ]
  /\ replayProps = [ event |-> [ replayId |-> Undefined, dateCreated |-> NoDate,
                                  dateReceived |-> NoDate ],
                     hasReplaysFeature |-> FALSE, canUpsellReplay |-> FALSE ]
  /\ replayCheck = [ fetching |-> TRUE, hasOrgSentReplays |-> FALSE ]
  /\ replayTree = RendersNothing
  /\ propMatrix = [ k \in PropNames |-> MissingProp ]
  /\ selectedProps = << "size", "busy" >>
  /\ matrixTree = Matrix(propMatrix, selectedProps)

ReplayInit ==
  /\ replayProps \in [ event : Events, hasReplaysFeature : BOOLEAN,
                        canUpsellReplay : BOOLEAN ]
  /\ replayCheck = [ fetching |-> TRUE, hasOrgSentReplays |-> FALSE ]
  /\ replayTree = EventReplay(replayProps, replayCheck)
  /\ items = <<>>
  /\ expandedIndex = 0
  /\ buttonOnLeft = Undefined
  /\ tree = <<>>
  /\ contentCalls = <<>>
  /\ lastClick = NoClick
  /\ location = [ pathname |-> "/performance/vitaldetail/",
                  query |-> [ k \in Keys |-> Absent ] ]
  /\ vitalName = LCP
  /\ error = Undefined
  /\ totalEventsCount = 0
  /\ pending = NoPush
  /\ tracked = NoEvent
  /\ countFrom = "initial"
  /\ tableProps = [ groupId |-> "g1", transactionName |-> "/api/a",
                    transactionMethod |-> "GET", highlightedSpanId |-> Undefined ]
  /\ spanMetrics = FetchingMetrics
  /\ samples = DisabledSamples
  /\ transactions = DisabledTransactions
  /\ loadedSpans = FALSE
  /\ pageError = Undefined
  /\ sent = NoAnalytics
  /\ pc = "start"
  /\ argv = [ migration |-> << "q" >>, app_label |-> AppLabel ]
  /\ fs = [ migrations |-> {}, lockfile |-> << >>, tests |-> {} ]
  /\ frame = NoLocals
  /\ fs0 = [ migrations |-> {}, lockfile |-> << >>, tests |-> {} ]
  /\ avatarProps = [ isColor |-> Undefined, isDefault |-> Undefined,
                     sentryApp |-> NoSentryApp ]
  /\ avatarTree = defaultSentryAppAvatar
  /\ propMatrix = [ k \in PropNames |-> MissingProp ]
  /\ selectedProps = << "size", "busy" >>
  /\ matrixTree = Matrix(propMatrix, selectedProps)

MatrixInit ==
  /\ propMatrix = [ k \in PropNames |-> MissingProp ]
  /\ selectedProps \in PropNames \X PropNames
  /\ matrixTree = Matrix(propMatrix, selectedProps)
  /\ items = <<>>
  /\ expandedIndex = 0
  /\ buttonOnLeft = Undefined
  /\ tree = <<>>
  /\ contentCalls = <<>>
  /\ lastClick = NoClick
  /\ location = [ pathname |-> "/performance/vitaldetail/",
                  query |-> [ k \in Keys |-> Absent ] ]
  /\ vitalName = LCP
  /\ error = Undefined
  /\ totalEventsCount = 0
  /\ pending = NoPush
  /\ tracked = NoEvent
  /\ countFrom = "initial"
  /\ tableProps = [ groupId |-> "g1", transactionName |-> "/api/a",
                    transactionMethod |-> "GET", highlightedSpanId |-> Undefined ]
  /\ spanMetrics = FetchingMetrics
  /\ samples = DisabledSamples
  /\ transactions = DisabledTransactions
  /\ loadedSpans = FALSE
  /\ pageError = Undefined
  /\ sent = NoAnalytics
  /\ pc = "start"
  /\ argv = [ migration |-> << "q" >>, app_label |-> AppLabel ]
  /\ fs = [ migrations |-> {}, lockfile |-> << >>, tests |-> {} ]
  /\ frame = NoLocals
  /\ fs0 = [ migrations |-> {}, lockfile |-> << >>, tests |-> {} ]
  /\ avatarProps = [ isColor |-> Undefined, isDefault |-> Undefined,
                     sentryApp |-> NoSentryApp ]
  /\ avatarTree = defaultSentryAppAvatar
  /\ replayProps = [ event |-> [ replayId |-> Undefined, dateCreated |-> NoDate,
                                  dateReceived |-> NoDate ],
                     hasReplaysFeature |-> FALSE, canUpsellReplay |-> FALSE ]
  /\ replayCheck = [ fetching |-> TRUE, hasOrgSentReplays |-> FALSE ]
  /\ replayTree = RendersNothing

AccordionSpec == AccInit /\ [][AccNext]_vars

VitalSpec == VitalInit /\ [][VitalNext]_vars

SampleSpec == SampleInit /\ [][SampleNext]_vars

MigrationSpec == MigrationInit /\ [][MigrationNext]_vars

AvatarSpec == AvatarInit /\ [][AvatarNext]_vars

ReplaySpec == ReplayInit /\ [][ReplayNext]_vars

MatrixSpec == MatrixInit /\ [][MatrixNext]_vars

====
